---- MODULE Spec2Model ----
(***************************************************************************)
(* A model of package entviz (taerc/entviz): the reduction of an Ent       *)
(* schema graph to the visualisation graph (toJsGraph), its JSON encoding  *)
(* (json.Marshal of jsGraph), the rendering of the HTML page               *)
(* (generateHTML) and the post-generation hook (VisualizeSchema).          *)
(*                                                                         *)
(* Text is modelled as a sequence of Unicode code points, so that the      *)
(* escaping done by the JSON encoder is a real conversion.                 *)
(***************************************************************************)
EXTENDS Integers, Sequences, FiniteSets, TLC

VARIABLES
    g,          \* the *gen.Graph handed to the package (read only)
    assets,     \* the files present in the embedded file system `assets`
    tmplhtml,   \* the parsed template viz.tmpl, a sequence of tokens
    nextErr,    \* what the wrapped generator next.Generate(g) returns
    fileBefore, \* the content of <target>/schema-viz.html when the entry point started
    pc,         \* position of the running entry point
    graph,      \* the jsGraph built by toJsGraph
    graphJSON,  \* the bytes json.Marshal(&graph) returned
    buf,        \* the []byte an entry point got from generateHTML (a Go slice)
    err,        \* the error the entry point returned (or holds)
    file,       \* the content of <target>/schema-viz.html
    calls       \* the external steps the hook has started, in order

vars == <<g, assets, tmplhtml, nextErr, fileBefore, pc, graph, graphJSON, buf, err, file, calls>>

(***************************************************************************)
(* Bounds of the model.                                                    *)
(***************************************************************************)
MaxNodes == 2        \* entity types in an input graph
MaxDecls == 2        \* relationship declarations in an input graph, all nodes together
MaxCommentLen == 3   \* code points in a generated field comment

(***************************************************************************)
(* Text literals (code points).                                            *)
(***************************************************************************)
Empty == <<>>                                     \* ""
SUser == <<85, 115, 101, 114>>                    \* "User"
SPet == <<80, 101, 116>>                          \* "Pet"
SCar == <<67, 97, 114>>                           \* "Car"
SName == <<110, 97, 109, 101>>                    \* "name"
SAge == <<97, 103, 101>>                          \* "age"
SPets == <<112, 101, 116, 115>>                   \* "pets"
SOwner == <<111, 119, 110, 101, 114>>             \* "owner"
SYongHuXingMing == <<29992, 25143, 22995, 21517>> \* the comment of User.name in the example schema

(***************************************************************************)
(* Go slices.  A nil slice and an empty non-nil slice are different        *)
(* values: json.Marshal encodes the first as null and the second as [].    *)
(***************************************************************************)
NilSlice == [isNil |-> TRUE, elems |-> <<>>]

\* A path at which no file exists.
NoFile == [exists |-> FALSE, data |-> <<>>]

\* A mutant of goAppend: the new element is put in front.
goPrepend(s, x) == [isNil |-> FALSE, elems |-> <<x>> \o s.elems]

\* append(s, x)
goAppend(s, x) == [isNil |-> FALSE, elems |-> Append(s.elems, x)]

(***************************************************************************)
(* The narrow view of the framework's graph that the package reads.        *)
(***************************************************************************)
\* field.TypeInfo.String(): the display string of a field type.
TypeString(t) ==
    CASE t = "TypeString" -> <<115, 116, 114, 105, 110, 103>>   \* "string"
      [] t = "TypeInt"    -> <<105, 110, 116>>                  \* "int"
      [] OTHER            -> <<105, 110, 118, 97, 108, 105, 100>> \* "invalid"

\* A mutant of IsInverse: no declaration counts as an inverse.
IsInverseNever(e) == FALSE

\* gen.Edge.IsInverse(): the declaration names the edge it is the inverse of.
IsInverse(e) == e.Inverse # Empty

\* The jsField literal of toJsGraph.
jsFieldOf(f) == [Name |-> f.Name, Type |-> TypeString(f.Type), Comment |-> f.Comment]

\* A mutant of jsEdgeOf: the edge is oriented towards the declaring entity.
jsEdgeReversed(n, e) == [From |-> e.Type.Name, To |-> n.Name, Label |-> e.Name]

\* A mutant of jsEdgeOf: the target is taken from the relationship's name.
jsEdgeToName(n, e) == [From |-> n.Name, To |-> e.Name, Label |-> e.Name]

\* The jsEdge literal of toJsGraph.
jsEdgeOf(n, e) == [From |-> n.Name, To |-> e.Type.Name, Label |-> e.Name]

(***************************************************************************)
(* toJsGraph.                                                              *)
(***************************************************************************)
RECURSIVE fieldLoop(_, _, _)
\* for _, f := range n.Fields { node.Fields = append(node.Fields, jsField{...}) }
fieldLoop(node, fs, k) ==
    IF k > Len(fs) THEN node
    ELSE fieldLoop([node EXCEPT !.Fields = goAppend(@, jsFieldOf(fs[k]))], fs, k + 1)

RECURSIVE edgeLoop(_, _, _)
\* for _, e := range n.Edges { if e.IsInverse() { continue }; graph.Edges = append(...) }
edgeLoop(gr, n, k) ==
    IF k > Len(n.Edges) THEN gr
    ELSE IF IsInverse(n.Edges[k]) THEN edgeLoop(gr, n, k + 1)
    ELSE edgeLoop([gr EXCEPT !.Edges = goAppend(@, jsEdgeOf(n, n.Edges[k]))], n, k + 1)

RECURSIVE nodeLoop(_, _, _)
\* for _, n := range g.Nodes { ... }
nodeLoop(gr, gg, i) ==
    IF i > Len(gg.Nodes) THEN gr
    ELSE LET n == gg.Nodes[i]
             node == fieldLoop([ID |-> n.Name, Fields |-> NilSlice], n.Fields, 1)
             withNode == [gr EXCEPT !.Nodes = goAppend(@, node)]
         IN nodeLoop(edgeLoop(withNode, n, 1), gg, i + 1)

\* jsGraph{}
ZeroGraph == [Nodes |-> NilSlice, Edges |-> NilSlice]

toJsGraph(gg) == nodeLoop(ZeroGraph, gg, 1)

(***************************************************************************)
(* json.Marshal(&graph): the encoding of jsGraph, jsNode, jsEdge and       *)
(* jsField with their `json:"..."` tags, as text.  Strings are escaped     *)
(* with the encoder's default, HTML-safe, escaping.                        *)
(***************************************************************************)
KNodes == <<110, 111, 100, 101, 115>>           \* nodes
KEdges == <<101, 100, 103, 101, 115>>           \* edges
KId == <<105, 100>>                             \* id
KFields == <<102, 105, 101, 108, 100, 115>>     \* fields
KFrom == <<102, 114, 111, 109>>                 \* from
KTo == <<116, 111>>                             \* to
KLabel == <<108, 97, 98, 101, 108>>             \* label
KName == <<110, 97, 109, 101>>                  \* name
KType == <<116, 121, 112, 101>>                 \* type
KComment == <<99, 111, 109, 109, 101, 110, 116>> \* comment
TNull == <<110, 117, 108, 108>>                 \* null

HexDigits == <<48, 49, 50, 51, 52, 53, 54, 55, 56, 57, 97, 98, 99, 100, 101, 102>> \* 0123456789abcdef

\* A mutant of mustEscapeUnicode: the encoder with SetEscapeHTML(false).
mustEscapeUnicodeNoHTML(c) == c < 32

\* The code points below 0x80 the encoder writes as \u00XX: the control
\* characters without a short escape and, HTML escaping being on, < > &.
mustEscapeUnicode(c) == c < 32 \/ c \in {60, 62, 38}

\* One code point of a string, as the encoder writes it.
encodeRune(c) ==
    IF c \in {92, 34} THEN <<92, c>>                 \* \\ and \"
    ELSE IF c = 10 THEN <<92, 110>>                  \* \n
    ELSE IF c = 13 THEN <<92, 114>>                  \* \r
    ELSE IF c = 9 THEN <<92, 116>>                   \* \t
    ELSE IF c < 128 /\ mustEscapeUnicode(c)
         THEN <<92, 117, 48, 48, HexDigits[(c \div 16) + 1], HexDigits[(c % 16) + 1]>>
    ELSE IF c \in {8232, 8233}                       \* U+2028, U+2029
         THEN <<92, 117, 50, 48, 50, HexDigits[(c % 16) + 1]>>
    ELSE <<c>>

RECURSIVE encodeRunes(_, _)
encodeRunes(src, k) ==
    IF k > Len(src) THEN << >> ELSE encodeRune(src[k]) \o encodeRunes(src, k + 1)

\* A Go string as a JSON string literal.
encodeString(src) == <<34>> \o encodeRunes(src, 1) \o <<34>>

RECURSIVE joinComma(_, _)
\* The texts of `parts` from k on, separated by commas.
joinComma(parts, k) ==
    IF k > Len(parts) THEN << >>
    ELSE IF k = Len(parts) THEN parts[k]
    ELSE parts[k] \o <<44>> \o joinComma(parts, k + 1)

\* "key":value
member(key, value) == encodeString(key) \o <<58>> \o value

\* A struct: its members in the order of the fields, none omitted.
encodeStruct(members) == <<123>> \o joinComma(members, 1) \o <<125>>

\* A slice: null when it is nil, else its elements in brackets.
encodeSlice(isNil, parts) ==
    IF isNil THEN TNull ELSE <<91>> \o joinComma(parts, 1) \o <<93>>

\* A mutant of encodeJsField: the comment tagged `json:"comment,omitempty"`.
encodeJsFieldOmitEmpty(f) ==
    encodeStruct(<<member(KName, encodeString(f.Name)), member(KType, encodeString(f.Type))>>
                 \o (IF f.Comment = << >> THEN << >>
                     ELSE <<member(KComment, encodeString(f.Comment))>>))

encodeJsField(f) ==
    encodeStruct(<<member(KName, encodeString(f.Name)),
                   member(KType, encodeString(f.Type)),
                   member(KComment, encodeString(f.Comment))>>)

encodeJsEdge(e) ==
    encodeStruct(<<member(KFrom, encodeString(e.From)),
                   member(KTo, encodeString(e.To)),
                   member(KLabel, encodeString(e.Label))>>)

encodeJsNode(n) ==
    encodeStruct(<<member(KId, encodeString(n.ID)),
                   member(KFields, encodeSlice(n.Fields.isNil,
                       [k \in 1..Len(n.Fields.elems) |-> encodeJsField(n.Fields.elems[k])]))>>)

encodeJsGraph(gr) ==
    encodeStruct(<<member(KNodes, encodeSlice(gr.Nodes.isNil,
                       [k \in 1..Len(gr.Nodes.elems) |-> encodeJsNode(gr.Nodes.elems[k])])),
                   member(KEdges, encodeSlice(gr.Edges.isNil,
                       [k \in 1..Len(gr.Edges.elems) |-> encodeJsEdge(gr.Edges.elems[k])]))>>)

\* json.Marshal(&graph); no value of this data model makes it fail.
jsonMarshal(gr) == [data |-> encodeJsGraph(gr), err |-> "nil"]

(***************************************************************************)
(* The reader of the payload: a JSON parser for the values the encoder     *)
(* can write (objects, arrays, strings, null), as json.Unmarshal and the   *)
(* page's script read them.  A value is                                    *)
(*   [t |-> "null" | "string" | "array" | "object", s, keys, elems]        *)
(* with s the text of a string, elems the elements of an array or the      *)
(* member values of an object, and keys the member names in order.         *)
(***************************************************************************)
JValue(t, str, keys, elems) == [t |-> t, s |-> str, keys |-> keys, elems |-> elems]
ParseFail == [ok |-> FALSE, v |-> JValue("null", << >>, << >>, << >>), pos |-> 0]

At(txt, i) == IF i >= 1 /\ i <= Len(txt) THEN txt[i] ELSE -1

HexVal(c) ==
    IF c \in 48..57 THEN c - 48
    ELSE IF c \in 97..102 THEN c - 87
    ELSE IF c \in 65..70 THEN c - 55
    ELSE -1

RECURSIVE parseStringBody(_, _, _)
\* The string whose opening quotation mark is just before position i.
parseStringBody(txt, i, acc) ==
    LET c == At(txt, i)
        d == At(txt, i + 1)
        h == [k \in 1..4 |-> HexVal(At(txt, i + 1 + k))]
    IN IF c = -1 \/ (c >= 0 /\ c < 32) THEN [ok |-> FALSE, s |-> << >>, pos |-> 0]
       ELSE IF c = 34 THEN [ok |-> TRUE, s |-> acc, pos |-> i + 1]
       ELSE IF c # 92 THEN parseStringBody(txt, i + 1, Append(acc, c))
       ELSE IF d \in {34, 92, 47} THEN parseStringBody(txt, i + 2, Append(acc, d))
       ELSE IF d = 110 THEN parseStringBody(txt, i + 2, Append(acc, 10))
       ELSE IF d = 114 THEN parseStringBody(txt, i + 2, Append(acc, 13))
       ELSE IF d = 116 THEN parseStringBody(txt, i + 2, Append(acc, 9))
       ELSE IF d = 98 THEN parseStringBody(txt, i + 2, Append(acc, 8))
       ELSE IF d = 102 THEN parseStringBody(txt, i + 2, Append(acc, 12))
       ELSE IF d = 117 /\ \A k \in 1..4 : h[k] >= 0
            THEN parseStringBody(txt, i + 6,
                     Append(acc, ((h[1] * 16 + h[2]) * 16 + h[3]) * 16 + h[4]))
       ELSE [ok |-> FALSE, s |-> << >>, pos |-> 0]

RECURSIVE parseValue(_, _)
RECURSIVE parseElems(_, _, _)
RECURSIVE parseMembers(_, _, _, _)

\* The elements of an array from position i on, up to its closing bracket.
parseElems(txt, i, acc) ==
    LET r == parseValue(txt, i)
    IN IF ~r.ok THEN ParseFail
       ELSE IF At(txt, r.pos) = 44 THEN parseElems(txt, r.pos + 1, Append(acc, r.v))
       ELSE IF At(txt, r.pos) = 93
            THEN [ok |-> TRUE, v |-> JValue("array", << >>, << >>, Append(acc, r.v)), pos |-> r.pos + 1]
       ELSE ParseFail

\* The members of an object from position i on, up to its closing brace.
parseMembers(txt, i, keys, vals) ==
    IF At(txt, i) # 34 THEN ParseFail
    ELSE LET k == parseStringBody(txt, i + 1, << >>)
         IN IF ~k.ok \/ At(txt, k.pos) # 58 THEN ParseFail
            ELSE LET r == parseValue(txt, k.pos + 1)
                 IN IF ~r.ok THEN ParseFail
                    ELSE IF At(txt, r.pos) = 44
                         THEN parseMembers(txt, r.pos + 1, Append(keys, k.s), Append(vals, r.v))
                    ELSE IF At(txt, r.pos) = 125
                         THEN [ok |-> TRUE,
                               v |-> JValue("object", << >>, Append(keys, k.s), Append(vals, r.v)),
                               pos |-> r.pos + 1]
                    ELSE ParseFail

parseValue(txt, i) ==
    LET c == At(txt, i)
    IN IF c = 34
       THEN LET r == parseStringBody(txt, i + 1, << >>)
            IN IF r.ok THEN [ok |-> TRUE, v |-> JValue("string", r.s, << >>, << >>), pos |-> r.pos]
               ELSE ParseFail
       ELSE IF c = 110
       THEN IF \A k \in 1..4 : At(txt, i + k - 1) = TNull[k]
            THEN [ok |-> TRUE, v |-> JValue("null", << >>, << >>, << >>), pos |-> i + 4]
            ELSE ParseFail
       ELSE IF c = 91
       THEN IF At(txt, i + 1) = 93
            THEN [ok |-> TRUE, v |-> JValue("array", << >>, << >>, << >>), pos |-> i + 2]
            ELSE parseElems(txt, i + 1, << >>)
       ELSE IF c = 123
       THEN IF At(txt, i + 1) = 125
            THEN [ok |-> TRUE, v |-> JValue("object", << >>, << >>, << >>), pos |-> i + 2]
            ELSE parseMembers(txt, i + 1, << >>, << >>)
       ELSE ParseFail

\* The value a text denotes; the whole text must be that value.
jsonParse(txt) ==
    LET r == parseValue(txt, 1)
    IN IF r.ok /\ r.pos = Len(txt) + 1 THEN [ok |-> TRUE, v |-> r.v]
       ELSE [ok |-> FALSE, v |-> ParseFail.v]

\* The value of member `key` of an object (the null value when it has none).
Member(v, key) ==
    IF \E k \in 1..Len(v.keys) : v.keys[k] = key
    THEN v.elems[CHOOSE k \in 1..Len(v.keys) : v.keys[k] = key]
    ELSE JValue("absent", << >>, << >>, << >>)

(***************************************************************************)
(* The embedded files and the template.                                    *)
(***************************************************************************)
AssetNames == {"assets/fira_code.css", "assets/vis-network.min.js", "assets/randomcolor.min.js"}

\* The bytes of an embedded file (short stand-ins for the vendored payloads).
AssetBytes(name) ==
    CASE name = "assets/fira_code.css"      -> <<98, 111, 100, 121, 123, 125>>   \* body{}
      [] name = "assets/vis-network.min.js" -> <<118, 105, 115, 40, 41>>         \* vis()
      [] OTHER                              -> <<114, 110, 100, 40, 41>>         \* rnd()

\* fs.ReadFile(assets, name)
ReadFile(fsys, name) ==
    IF name \in fsys THEN [data |-> AssetBytes(name), err |-> "nil"]
    ELSE [data |-> << >>, err |-> "open " \o name \o ": file does not exist"]

\* The fields of templateData, the slots a template may use.
Slots == {"FiraCodeCSS", "VisNetworkJS", "RandomColorJS", "GraphJSON"}

Text(t) == [kind |-> "text", text |-> t, field |-> "", ctx |-> ""]
Action(f, c) == [kind |-> "action", text |-> << >>, field |-> f, ctx |-> c]

TStyleOpen == <<60, 115, 116, 121, 108, 101, 62>>           \* <style>
TStyleClose == <<60, 47, 115, 116, 121, 108, 101, 62>>      \* </style>
TScriptOpen == <<60, 115, 99, 114, 105, 112, 116, 62>>      \* <script>
TScriptClose == <<60, 47, 115, 99, 114, 105, 112, 116, 62>> \* </script>
TGraphDecl == <<99, 111, 110, 115, 116, 32, 101, 110, 116, 71, 114, 97, 112, 104, 32, 61, 32>> \* const entGraph =

\* viz.tmpl as parsed: the stylesheet in a style element, each library and
\* the graph in a script element of its own.
FullTemplate ==
    << Text(TStyleOpen), Action("FiraCodeCSS", "css"), Text(TStyleClose),
       Text(TScriptOpen), Action("VisNetworkJS", "js"), Text(TScriptClose),
       Text(TScriptOpen), Action("RandomColorJS", "js"), Text(TScriptClose),
       Text(TScriptOpen \o TGraphDecl), Action("GraphJSON", "js"), Text(<<59>> \o TScriptClose) >>

\* The template with only the slots of `slots`, and, when `stray`, with an
\* action on a field templateData does not have.
TemplateWith(slots, stray) ==
    LET Keep(tok) == tok.kind = "text" \/ tok.field \in slots
    IN SelectSeq(FullTemplate, Keep) \o (IF stray THEN <<Action("Title", "js")>> ELSE << >>)

\* The slots a template has.
SlotsIn(tmpl) == {tmpl[k].field : k \in {j \in 1..Len(tmpl) : tmpl[j].kind = "action"}} \cap Slots

\* html/template's escaping of a value in its slot: typed content of the
\* slot's kind (template.CSS in a style element, template.JS in a script
\* element) is written as it is; anything else is filtered or quoted.
escapeValue(ctx, val) ==
    IF ctx = "css" /\ val.typ = "CSS" THEN val.s
    ELSE IF ctx = "js" /\ val.typ = "JS" THEN val.s
    ELSE IF ctx = "css" THEN <<90, 103, 111, 116, 109, 112, 108, 90>>   \* ZgotmplZ
    ELSE encodeString(val.s)

RECURSIVE execLoop(_, _, _, _)
\* viztmpl.Execute(&b, data): the tokens from k on, after `out` was written.
execLoop(tmpl, data, k, out) ==
    IF k > Len(tmpl) THEN [out |-> out, err |-> "nil"]
    ELSE IF tmpl[k].kind = "text" THEN execLoop(tmpl, data, k + 1, out \o tmpl[k].text)
    ELSE IF tmpl[k].field \notin DOMAIN data
         THEN [out |-> out, err |-> "template: viz: can't evaluate field " \o tmpl[k].field]
    ELSE execLoop(tmpl, data, k + 1, out \o escapeValue(tmpl[k].ctx, data[tmpl[k].field]))

\* A mutant of Execute: a template without all four slots is refused.
ExecuteRequireSlots(tmpl, data) ==
    IF SlotsIn(tmpl) # Slots THEN [out |-> << >>, err |-> "template: viz: missing slot"]
    ELSE execLoop(tmpl, data, 1, << >>)

Execute(tmpl, data) == execLoop(tmpl, data, 1, << >>)

\* A mutant of failed: no error is noticed.
failedNever(e) == FALSE

\* err != nil
failed(e) == e # "nil"

\* What generateHTML returns when it fails: return nil, err.
Failure(e, gr, js) == [bytes |-> NilSlice, err |-> e, graph |-> gr, graphJSON |-> js]

\* generateHTML(g), with the embedded files and the template it reads; the
\* result also carries its locals graph and graphJSON.
generateHTML(gg, fsys, tmpl) ==
    LET firaCodeCSS == ReadFile(fsys, "assets/fira_code.css")
        visNetworkJS == ReadFile(fsys, "assets/vis-network.min.js")
        randomColorJS == ReadFile(fsys, "assets/randomcolor.min.js")
        gr == toJsGraph(gg)
        m == jsonMarshal(gr)
        data == [FiraCodeCSS   |-> [typ |-> "CSS", s |-> firaCodeCSS.data],
                 VisNetworkJS  |-> [typ |-> "JS", s |-> visNetworkJS.data],
                 RandomColorJS |-> [typ |-> "JS", s |-> randomColorJS.data],
                 GraphJSON     |-> [typ |-> "JS", s |-> m.data]]
        x == Execute(tmpl, data)
    IN IF failed(firaCodeCSS.err) THEN Failure(firaCodeCSS.err, ZeroGraph, << >>)
       ELSE IF failed(visNetworkJS.err) THEN Failure(visNetworkJS.err, ZeroGraph, << >>)
       ELSE IF failed(randomColorJS.err) THEN Failure(randomColorJS.err, ZeroGraph, << >>)
       ELSE IF failed(m.err) THEN Failure(m.err, gr, << >>)
       ELSE IF failed(x.err) THEN Failure(x.err, gr, m.data)
       ELSE [bytes |-> [isNil |-> x.out = << >>, elems |-> x.out], err |-> "nil",
             graph |-> gr, graphJSON |-> m.data]

(***************************************************************************)
(* Input graphs of the reducer's specification: up to MaxNodes entity      *)
(* types with distinct names and, over all of them, up to MaxDecls         *)
(* relationship declarations; the names of one entity's declarations are   *)
(* distinct, and every target is an entity of the graph.                   *)
(***************************************************************************)
Entities == {SUser, SPet, SCar}
RelNames == {SPets, SOwner}

\* The fields each entity's schema declares.
FieldsOf(name) ==
    IF name = SUser THEN << [Name |-> SName, Type |-> "TypeString", Comment |-> SYongHuXingMing],
                            [Name |-> SAge, Type |-> "TypeInt", Comment |-> Empty] >>
    ELSE IF name = SCar THEN << [Name |-> SName, Type |-> "TypeString", Comment |-> Empty] >>
    ELSE << >>

Distinct(s) == \A i, j \in 1..Len(s) : i # j => s[i] # s[j]

NodeNameSeqs == UNION {{s \in [1..n -> Entities] : Distinct(s)} : n \in 0..MaxNodes}

Range(s) == {s[i] : i \in 1..Len(s)}

\* The declarations an entity of a graph with these entity names may make.
EdgeDecls(names) ==
    {[Name |-> r, Type |-> [Name |-> t], Inverse |-> i] :
        r \in RelNames, t \in Range(names), i \in {Empty} \cup RelNames}

NamesOf(el) == [j \in 1..Len(el) |-> el[j].Name]

EdgeLists(names, k) ==
    UNION {{el \in [1..l -> EdgeDecls(names)] : Distinct(NamesOf(el)) /\ \A j \in 1..l : el[j].Inverse # el[j].Name}
           : l \in 0..(IF k < Cardinality(RelNames) THEN k ELSE Cardinality(RelNames))}

RECURSIVE Assign(_, _, _)
\* The ways to give the entities i.. of `names` their declarations, at most `budget` in all.
Assign(names, i, budget) ==
    IF i > Len(names) THEN {<< >>}
    ELSE UNION {{<<el>> \o rest : rest \in Assign(names, i + 1, budget - Len(el))}
                : el \in EdgeLists(names, budget)}

GraphOf(names, a) ==
    [Nodes |-> [i \in 1..Len(names) |->
                  [Name |-> names[i], Fields |-> FieldsOf(names[i]), Edges |-> a[i]]]]

EmptyInput == [Nodes |-> << >>]

(***************************************************************************)
(* The reducer's specification: toJsGraph applied to every input graph.    *)
(***************************************************************************)
InitReduce ==
    /\ \E names \in NodeNameSeqs : \E a \in Assign(names, 1, MaxDecls) : g = GraphOf(names, a)
    /\ assets = AssetNames
    /\ tmplhtml = FullTemplate
    /\ nextErr = "nil"
    /\ fileBefore = NoFile
    /\ pc = "start"
    /\ graph = ZeroGraph
    /\ graphJSON = << >>
    /\ buf = NilSlice
    /\ err = "nil"
    /\ file = NoFile
    /\ calls = << >>

ToJsGraph ==
    /\ pc = "start"
    /\ graph' = toJsGraph(g)
    /\ pc' = "reduced"
    /\ UNCHANGED <<g, assets, tmplhtml, nextErr, fileBefore, graphJSON, buf, err, file, calls>>

NextReduce == ToJsGraph

SpecReduce == InitReduce /\ [][NextReduce]_vars

(***************************************************************************)
(* The standalone entry point, GeneratePage: the framework loads the graph *)
(* and generateHTML renders it.  Its specification draws the graph, the    *)
(* embedded files and the template.                                        *)
(***************************************************************************)
\* The code points generated comments are made of: < > & " \ / LF and a
\* non-ASCII character.
CommentAlphabet == {60, 62, 38, 34, 92, 47, 10, 29992}

Comments ==
    UNION {[1..n -> CommentAlphabet] : n \in 0..MaxCommentLen} \cup {TScriptClose, SYongHuXingMing}

PetsEdge == [Name |-> SPets, Type |-> [Name |-> SPet], Inverse |-> Empty]

\* The example schema cut down: User, with one commented field and the
\* relationship pets, and Pet, which declares nothing.
ScenarioGraph(c) ==
    [Nodes |-> << [Name |-> SUser,
                   Fields |-> << [Name |-> SName, Type |-> "TypeString", Comment |-> c] >>,
                   Edges |-> << PetsEdge >>],
                  [Name |-> SPet, Fields |-> << >>, Edges |-> << >>] >>]

\* One entity with two fields, the second without a comment.
SingleGraph(c) ==
    [Nodes |-> << [Name |-> SUser,
                   Fields |-> << [Name |-> SName, Type |-> "TypeString", Comment |-> c],
                                 [Name |-> SAge, Type |-> "TypeInt", Comment |-> Empty] >>,
                   Edges |-> << >>] >>]

PageGraphs == {EmptyInput} \cup {ScenarioGraph(c) : c \in Comments} \cup {SingleGraph(c) : c \in Comments}

Templates == {TemplateWith(sl, stray) : sl \in SUBSET Slots, stray \in BOOLEAN}

InitPage ==
    /\ \/ g \in PageGraphs /\ assets = AssetNames /\ tmplhtml = FullTemplate
       \/ g \in {EmptyInput, ScenarioGraph(SYongHuXingMing)}
          /\ assets \in SUBSET AssetNames
          /\ tmplhtml \in Templates
    /\ nextErr = "nil"
    /\ fileBefore = NoFile
    /\ pc = "start"
    /\ graph = ZeroGraph
    /\ graphJSON = << >>
    /\ buf = NilSlice
    /\ err = "nil"
    /\ file = NoFile
    /\ calls = << >>

\* GeneratePage(schemaPath, cfg); entc.LoadGraph either fails or yields g.
GeneratePage ==
    /\ pc = "start"
    /\ pc' = "page"
    /\ \E loadErr \in {"nil", "entc: load schema dir"} :
          IF failed(loadErr)
          THEN /\ calls' = <<"entc.LoadGraph">>
               /\ buf' = NilSlice
               /\ err' = loadErr
               /\ UNCHANGED <<graph, graphJSON>>
          ELSE LET r == generateHTML(g, assets, tmplhtml)
               IN /\ calls' = <<"entc.LoadGraph", "generateHTML">>
                  /\ buf' = r.bytes
                  /\ err' = r.err
                  /\ graph' = r.graph
                  /\ graphJSON' = r.graphJSON
    /\ UNCHANGED <<g, assets, tmplhtml, nextErr, fileBefore, file>>

NextPage == GeneratePage

SpecPage == InitPage /\ [][NextPage]_vars

(***************************************************************************)
(* The post-generation hook, VisualizeSchema: the wrapped generator, then  *)
(* generateHTML, then os.WriteFile.  The calls whose outcome the           *)
(* environment decides are one step each.                                  *)
(***************************************************************************)
OldFile == [exists |-> TRUE, data |-> <<111, 108, 100>>]   \* a page left by an earlier run

HookGraphs == {EmptyInput, ScenarioGraph(SYongHuXingMing)}

Init ==
    /\ g \in HookGraphs
    /\ assets \in SUBSET AssetNames
    /\ tmplhtml \in {FullTemplate, TemplateWith(Slots, TRUE)}
    /\ nextErr \in {"nil", "generate: format error", "generate: write error"}
    /\ fileBefore \in {NoFile, OldFile}
    /\ file = fileBefore
    /\ pc = "start"
    /\ graph = ZeroGraph
    /\ graphJSON = << >>
    /\ buf = NilSlice
    /\ err = "nil"
    /\ calls = << >>

\* if err := next.Generate(g); err != nil { return err }
HookNext ==
    /\ pc = "start"
    /\ calls' = Append(calls, "next.Generate")
    /\ IF failed(nextErr)
       THEN pc' = "returned" /\ err' = nextErr
       ELSE pc' = "generate" /\ err' = err
    /\ UNCHANGED <<g, assets, tmplhtml, nextErr, fileBefore, graph, graphJSON, buf, file>>

\* buf, err := generateHTML(g); if err != nil { return err }
HookGenerateHTML ==
    /\ pc = "generate"
    /\ calls' = Append(calls, "generateHTML")
    /\ LET r == generateHTML(g, assets, tmplhtml)
       IN /\ buf' = r.bytes
          /\ graph' = r.graph
          /\ graphJSON' = r.graphJSON
          /\ IF failed(r.err)
             THEN pc' = "returned" /\ err' = r.err
             ELSE pc' = "write" /\ err' = err
    /\ UNCHANGED <<g, assets, tmplhtml, nextErr, fileBefore, file>>

\* return os.WriteFile(path, buf, 0644): the file is opened with
\* O_WRONLY|O_CREATE|O_TRUNC, written and closed.  Opening may fail (the
\* file is untouched), and the write may fail after any number of bytes.
HookWriteFile ==
    /\ pc = "write"
    /\ calls' = Append(calls, "os.WriteFile")
    /\ pc' = "returned"
    /\ \/ /\ file' = [exists |-> TRUE, data |-> buf.elems]
          /\ err' = "nil"
       \/ /\ file' = file
          /\ err' = "open schema-viz.html: permission denied"
       \/ \E n \in 0..(Len(buf.elems) - 1) :
            /\ file' = [exists |-> TRUE, data |-> SubSeq(buf.elems, 1, n)]
            /\ err' = "write schema-viz.html: no space left on device"
    /\ UNCHANGED <<g, assets, tmplhtml, nextErr, fileBefore, graph, graphJSON, buf>>

Next == HookNext \/ HookGenerateHTML \/ HookWriteFile

Spec == Init /\ [][Next]_vars

(***************************************************************************)
(* Claims about the reducer (checked under SpecReduce).                    *)
(***************************************************************************)
Reduced == pc = "reduced"

OutEdges == graph.Edges.elems
OutNodes == graph.Nodes.elems

\* The positions <<node, declaration>> of the input's declarations.
DeclPos == {p \in (1..Len(g.Nodes)) \X (1..MaxDecls) : p[2] <= Len(g.Nodes[p[1]].Edges)}
DeclAt(p) == g.Nodes[p[1]].Edges[p[2]]
InverseFlag(p) == DeclAt(p).Inverse # Empty
CanonPos == {p \in DeclPos : ~InverseFlag(p)}
EdgeFor(p) == [From |-> g.Nodes[p[1]].Name, To |-> DeclAt(p).Type.Name, Label |-> DeclAt(p).Name]

\* The output edges that come from entity `from` under the label `label`
\* (an entity's declarations have distinct names).
EdgesOf(from, label) == {m \in 1..Len(OutEdges) : OutEdges[m].From = from /\ OutEdges[m].Label = label}

\* C1: the number of edges toJsGraph emits equals the number of declarations
\* whose inverse flag is false, over all entity types; a declaration whose
\* inverse flag is true produces no edge.
C1_EdgeCount ==
    Reduced =>
        /\ Len(OutEdges) = Cardinality(CanonPos)
        /\ \A p \in DeclPos : InverseFlag(p) => EdgesOf(g.Nodes[p[1]].Name, DeclAt(p).Name) = {}

C1_Witness ==
    /\ Reduced
    /\ \E p, q \in DeclPos : InverseFlag(p) /\ ~InverseFlag(q)
    /\ Len(OutEdges) = 1

\* A canonical declaration at p on entity A targeting B, and at q on B its
\* inverse targeting A.
IsPair(p, q) ==
    /\ ~InverseFlag(p)
    /\ DeclAt(q).Inverse = DeclAt(p).Name
    /\ DeclAt(p).Type.Name = g.Nodes[q[1]].Name
    /\ DeclAt(q).Type.Name = g.Nodes[p[1]].Name

\* C2: a bidirectional pair yields exactly one edge, from the entity that
\* declares the canonical side to the other, labelled with the canonical
\* name, whatever the order of the two entities in the node list.
C2_PairOneEdge ==
    Reduced =>
        \A p, q \in DeclPos : IsPair(p, q) =>
            LET ms == EdgesOf(g.Nodes[p[1]].Name, DeclAt(p).Name)
                      \cup EdgesOf(g.Nodes[q[1]].Name, DeclAt(q).Name)
            IN /\ Cardinality(ms) = 1
               /\ \A m \in ms : OutEdges[m] = EdgeFor(p)

C2_Witness ==
    /\ Reduced
    /\ \E p, q \in DeclPos : IsPair(p, q) /\ p[1] > q[1]
    /\ Len(OutEdges) = 1

SelfPos == {p \in DeclPos : DeclAt(p).Type.Name = g.Nodes[p[1]].Name}

OneSelfLoop(p) ==
    LET ms == EdgesOf(g.Nodes[p[1]].Name, DeclAt(p).Name)
    IN /\ Cardinality(ms) = 1
       /\ \A m \in ms : OutEdges[m].From = g.Nodes[p[1]].Name /\ OutEdges[m].To = g.Nodes[p[1]].Name

\* C3 as stated: every declaration that targets its own entity produces
\* exactly one edge, a self-loop; it is neither dropped nor duplicated.
C3_Original == Reduced => \A p \in SelfPos : OneSelfLoop(p)

\* C3 as amended: every declaration that targets its own entity and whose
\* inverse flag is false produces exactly one edge, a self-loop; a
\* self-targeting declaration whose inverse flag is true produces none.
C3_SelfLoop ==
    Reduced =>
        \A p \in SelfPos :
            IF InverseFlag(p) THEN EdgesOf(g.Nodes[p[1]].Name, DeclAt(p).Name) = {}
            ELSE OneSelfLoop(p)

C3_Witness ==
    /\ Reduced
    /\ \E p, q \in SelfPos : ~InverseFlag(p) /\ InverseFlag(q)
    /\ Len(g.Nodes) = 2

\* p comes before q: by declaring node, then by declaration order.
Before(p, q) == p[1] < q[1] \/ (p[1] = q[1] /\ p[2] < q[2])
Rank(p) == Cardinality({q \in CanonPos : Before(q, p)}) + 1

\* C4: the output order follows the input order: the nodes are in the
\* input's node order, each node's fields in the field order, and the edges
\* are ordered by declaring node and then by declaration order in the node.
C4_Order ==
    Reduced =>
        /\ Len(OutNodes) = Len(g.Nodes)
        /\ \A i \in 1..Len(g.Nodes) :
              /\ OutNodes[i].ID = g.Nodes[i].Name
              /\ Len(OutNodes[i].Fields.elems) = Len(g.Nodes[i].Fields)
              /\ \A k \in 1..Len(g.Nodes[i].Fields) :
                    OutNodes[i].Fields.elems[k].Name = g.Nodes[i].Fields[k].Name
        /\ Len(OutEdges) = Cardinality(CanonPos)
        /\ \A p \in CanonPos : OutEdges[Rank(p)] = EdgeFor(p)

C4_Witness ==
    /\ Reduced
    /\ Len(OutEdges) = 2
    /\ \E p, q \in CanonPos : p[1] = 1 /\ q[1] = 2 /\ EdgeFor(p) # EdgeFor(q)
    /\ \E i \in 1..Len(g.Nodes) : Len(g.Nodes[i].Fields) = 2

(***************************************************************************)
(* Claims about the payload and the page (checked under SpecPage).         *)
(***************************************************************************)
Rendered == pc = "page" /\ Len(calls) = 2
PageOK == Rendered /\ err = "nil"

Payload == jsonParse(graphJSON)
PNodes == Member(Payload.v, KNodes)
PEdges == Member(Payload.v, KEdges)

\* C5: in the serialized payload nodes and edges are always sequences, and
\* an entity without fields has fields [], never an absent or null value.
C5_NoNull ==
    PageOK =>
        /\ Payload.ok
        /\ PNodes.t = "array"
        /\ PEdges.t = "array"
        /\ \A i \in 1..Len(PNodes.elems) : Member(PNodes.elems[i], KFields).t = "array"

JString(str) == JValue("string", str, << >>, << >>)

\* C6: every field of every entity is an object with exactly the keys
\* name, type, comment, in that order, whose values are the field's name,
\* type string and comment; an empty comment is written as "" and the key
\* is not omitted.
C6_FieldKeys ==
    PageOK =>
        /\ Payload.ok
        /\ Len(PNodes.elems) = Len(g.Nodes)
        /\ \A i \in 1..Len(g.Nodes) :
              LET fs == Member(PNodes.elems[i], KFields).elems
              IN /\ Len(fs) = Len(g.Nodes[i].Fields)
                 /\ \A k \in 1..Len(g.Nodes[i].Fields) :
                       /\ fs[k].t = "object"
                       /\ fs[k].keys = <<KName, KType, KComment>>
                       /\ fs[k].elems = << JString(g.Nodes[i].Fields[k].Name),
                                           JString(TypeString(g.Nodes[i].Fields[k].Type)),
                                           JString(g.Nodes[i].Fields[k].Comment) >>

C6_Witness ==
    /\ PageOK
    /\ Len(g.Nodes) = 1
    /\ Len(g.Nodes[1].Fields) = 2
    /\ g.Nodes[1].Fields[1].Comment = <<34, 29992, 92>>
    /\ g.Nodes[1].Fields[2].Comment = Empty

\* C7 as stated: rendering fails, with no output bytes, when the template
\* lacks one of the four slots, and succeeds only when all four are there.
C7_Original ==
    Rendered =>
        /\ SlotsIn(tmplhtml) # Slots => err # "nil" /\ buf.isNil
        /\ err = "nil" => SlotsIn(tmplhtml) = Slots

StrayAction(tmpl) == \E k \in 1..Len(tmpl) : tmpl[k].kind = "action" /\ tmpl[k].field \notin Slots

\* The first position from i on at which pat occurs in txt, 0 when there is none.
FindFrom(txt, pat, i) ==
    LET hits == {j \in i..(Len(txt) - Len(pat) + 1) : SubSeq(txt, j, j + Len(pat) - 1) = pat}
    IN IF hits = {} THEN 0 ELSE CHOOSE j \in hits : \A k \in hits : j <= k

Occurs(txt, pat) == FindFrom(txt, pat, 1) # 0

\* C7 as amended: rendering fails, with no output bytes, exactly when an
\* embedded file is missing or the template uses a field templateData does
\* not have; a template that lacks one of the four slots is not an error:
\* rendering succeeds and the page has the payloads of the slots present.
C7_Render ==
    Rendered =>
        /\ err = "nil" <=> (assets = AssetNames /\ ~StrayAction(tmplhtml))
        /\ err # "nil" => buf.isNil
        /\ err = "nil" =>
              /\ ~buf.isNil
              /\ "GraphJSON" \in SlotsIn(tmplhtml) <=> Occurs(buf.elems, graphJSON)
              /\ "FiraCodeCSS" \in SlotsIn(tmplhtml) <=> Occurs(buf.elems, AssetBytes("assets/fira_code.css"))

C7_Witness ==
    /\ Rendered
    /\ err = "nil"
    /\ SlotsIn(tmplhtml) = Slots \ {"GraphJSON"}
    /\ Len(g.Nodes) = 2

\* The content of the script element that declares entGraph, as the HTML
\* tokenizer delimits it: from the declaration to the first </script>.
ScriptText(doc) ==
    LET open == FindFrom(doc, TScriptOpen \o TGraphDecl, 1)
        from == open + Len(TScriptOpen) + Len(TGraphDecl)
        close == IF open = 0 THEN 0 ELSE FindFrom(doc, TScriptClose, from)
    IN IF close = 0 THEN << >> ELSE SubSeq(doc, from, close - 1)

\* The comments of the fields of a parsed payload, per node.
PayloadComments(v) ==
    LET ns == Member(v, KNodes).elems
    IN [i \in 1..Len(ns) |->
          LET fs == Member(ns[i], KFields).elems
          IN [k \in 1..Len(fs) |-> Member(fs[k], KComment).s]]

InputComments == [i \in 1..Len(g.Nodes) |-> [k \in 1..Len(g.Nodes[i].Fields) |-> g.Nodes[i].Fields[k].Comment]]

\* C10: whatever a field comment contains (also < > " & and </script>), the
\* graph JSON in the page's script element has no < > or & in it, the
\* script element ends where the template ends it, and parsing the
\* element's payload gives back every comment unchanged.
C10_SafeEmbedding ==
    (PageOK /\ tmplhtml = FullTemplate) =>
        /\ \A k \in 1..Len(graphJSON) : graphJSON[k] \notin {60, 62, 38}
        /\ ScriptText(buf.elems) = graphJSON \o <<59>>
        /\ LET r == jsonParse(SubSeq(ScriptText(buf.elems), 1, Len(ScriptText(buf.elems)) - 1))
           IN r.ok /\ PayloadComments(r.v) = InputComments

C10_Witness ==
    /\ PageOK
    /\ tmplhtml = FullTemplate
    /\ Len(g.Nodes) = 2
    /\ g.Nodes[1].Fields[1].Comment = TScriptClose

(***************************************************************************)
(* Claims about the hook (checked under Spec).                             *)
(***************************************************************************)
Returned == pc = "returned"
HookSteps == <<"next.Generate", "generateHTML", "os.WriteFile">>
IsPrefix(s, t) == Len(s) <= Len(t) /\ s = SubSeq(t, 1, Len(s))
MissingAssets == AssetNames \ assets

\* C8: the hook runs the wrapped generator, the rendering and the write in
\* that order, each at most once; when the wrapped generator fails, an
\* embedded file is missing or template execution fails, it returns that
\* error as it is and never starts the write; the write is started only
\* after all earlier stages succeeded.
C8_Order ==
    /\ IsPrefix(calls, HookSteps)
    /\ Len(calls) = 3 => nextErr = "nil" /\ MissingAssets = {} /\ ~StrayAction(tmplhtml) /\ ~buf.isNil
    /\ Len(calls) < 3 => file = fileBefore
    /\ (Returned /\ nextErr # "nil") => err = nextErr /\ calls = <<"next.Generate">>
    /\ (Returned /\ nextErr = "nil" /\ MissingAssets # {}) =>
          /\ err \in {"open " \o a \o ": file does not exist" : a \in MissingAssets}
          /\ calls = <<"next.Generate", "generateHTML">>
    /\ (Returned /\ nextErr = "nil" /\ MissingAssets = {} /\ StrayAction(tmplhtml)) =>
          /\ err = "template: viz: can't evaluate field Title"
          /\ calls = <<"next.Generate", "generateHTML">>

C8_Witness ==
    /\ Returned
    /\ nextErr = "nil"
    /\ MissingAssets = {"assets/randomcolor.min.js"}
    /\ fileBefore = OldFile
    /\ Len(calls) = 2

\* C9: after any run of the hook the target file either holds the complete
\* rendered buffer or is in the state it had before the run; a failing
\* write leaves no partial file.
C9_NoPartialFile ==
    Returned => \/ file = fileBefore
                \/ (file.exists /\ ~buf.isNil /\ file.data = buf.elems)

====
